---- MODULE Spec2Model ----
(***************************************************************************)
(* FunctionCallingAgent of backend/workflows/single.py: the workflow steps *)
(* prepare_chat_history, handle_llm_input, handle_llm_input_stream (with   *)
(* its response_generator) and handle_tool_calls, as state transitions of  *)
(* one agent instance.                                                     *)
(*                                                                         *)
(* Reading of the file.  Each step is modelled as one atomic action that   *)
(* is applied to the event it accepts, from its statements in the order    *)
(* and block structure of the file.  Two places of the file have no        *)
(* executable reading as they stand and are taken as follows:              *)
(*  - lines 194-211 sit at the indentation of response_generator's body    *)
(*    and return a value, which an async generator cannot do; they drive   *)
(*    a generator object through __anext__ and are modelled as the         *)
(*    statements of handle_llm_input_stream that consume the generator     *)
(*    defined by lines 161-191;                                            *)
(*  - handle_tool_calls (lines 215-277) is defined inside                  *)
(*    handle_llm_input_stream; it is modelled as the step that is applied  *)
(*    to a ToolCallEvent (Spec).  SpecWorkflow is the workflow of the      *)
(*    steps the class itself declares, in which it is not one.             *)
(* Everything else, the placement of lines 186-191 inside the chunk loop   *)
(* and of lines 270-277 inside the request loop included, is as written.   *)
(*                                                                         *)
(* The language model, the tools and the Context handed to a run are the   *)
(* environment: their replies, outcomes and prior contents are drawn from  *)
(* small sets.  Text is a sequence of string tokens, "" is <<>>.           *)
(***************************************************************************)
EXTENDS Integers, Sequences, FiniteSets, TLC

\* ---- bounds of the model ----
\* runs started on one agent instance
MaxRuns == 2
\* rounds of tool calls the model asks for in one run
MaxRounds == 1
\* requests in one reply of the model
MaxBatch == 2
\* chunks in one streamed reply
MaxChunks == 2

\* ---- configuration and environment ----
AgentName == "agent"
SystemPrompts == {"None", "be brief"}
UserInputs == {"hi", "sum"}
\* self.tools: a context-free FunctionTool and a ContextAwareTool
tools == {[name |-> "search", ctx_aware |-> FALSE], [name |-> "lookup", ctx_aware |-> TRUE]}
\* names a model may request: the configured ones and one that is not configured
RequestNames == {"search", "lookup", "ghost"}
\* what awaiting tool.acall can do: return an output, return an output flagged
\* is_error, raise
Outcomes == {"ok", "failure", "raise"}
Fragments == <<"f1", "f2", "f3", "f4">>

VARIABLES
  system_prompt,   \* self.system_prompt ("None" for None)
  write_events,    \* self.write_events
  memory,          \* self.memory: the message log
  sources,         \* self.sources
  ctx_data,        \* ctx.data of the current run: a set of <<key, value>>
  events,          \* the notices written with ctx.write_event_to_stream
  pc,              \* what the run waits for: the pending event, or its end
  error,           \* the exception that ended the run, "none" otherwise
  ev_input,        \* InputEvent.input
  ev_tool_calls,   \* ToolCallEvent.tool_calls
  result,          \* StopEvent.result
  gen,             \* the response_generator object of the current invocation
  received,        \* the items the caller has pulled from a generator result
  run,             \* number of runs started on this instance
  round,           \* number of ToolCallEvents emitted in the current run
  delivered,       \* the latest AgentRunResult a caller was handed, and by which run
  obs              \* observation of the current run (history, not program state)

vars == <<system_prompt, write_events, memory, sources, ctx_data, events, pc, error,
          ev_input, ev_tool_calls, result, gen, received, run, round, delivered, obs>>

\* ---- messages ----
NoKwargs == <<>>
ChatMessage(role, content, additional_kwargs) ==
  [role |-> role, content |-> content, additional_kwargs |-> additional_kwargs]

\* ChatMemoryBuffer.put / get as used here (trimming is the buffer's own concern)
put(mem, msg) == Append(mem, msg)
get(mem) == mem

\* ---- dictionaries as sets of <<key, value>> ----
HasKey(d, k) == \E p \in d : p[1] = k
Lookup(d, k) == (CHOOSE p \in d : p[1] = k)[2]
Store(d, k, v) == {p \in d : p[1] # k} \cup {<<k, v>>}

\* ---- notices ----
AgentRunEvent(name, msg) == [name |-> name, msg |-> msg]
StartMsg(user_input) == <<"Start to work on:", user_input>>
FinishedMsg == <<"Finished task">>
FinishedMsgStream == <<"Finished Task">>

\* lines 104-105, 136-140, 205-208: a notice is written when write_events is set
write_event_unguarded(evs, notice) == Append(evs, notice)
write_event_to_stream(evs, notice) == IF write_events THEN Append(evs, notice) ELSE evs

NoResult == [kind |-> "none"]
NoGen == [pos |-> "none"]
\* log_start, events_start: lengths of the log and of the notices when the run began;
\* first_reply: what the first model invocation of the run gave; rounds: one record
\* per application of handle_tool_calls; calls: the capabilities executed;
\* inv_log: length of the log when the latest model invocation began;
\* extracted: the item handle_llm_input_stream took the requests from;
\* sources_before: length of sources when prepare_chat_history was entered
NoObs == [log_start |-> 0, events_start |-> 0, input |-> "", first_reply |-> "none",
          rounds |-> <<>>, calls |-> <<>>, llm_calls |-> 0, inv_log |-> 0,
          extracted |-> <<>>, sources_before |-> 0]

Init ==
  /\ system_prompt \in SystemPrompts
  /\ write_events \in BOOLEAN
  /\ memory = <<>>
  /\ sources = <<>>
  /\ ctx_data = {}
  /\ events = <<>>
  /\ pc = "idle"
  /\ error = "none"
  /\ ev_input = <<>>
  /\ ev_tool_calls = <<>>
  /\ result = NoResult
  /\ gen = NoGen
  /\ received = <<>>
  /\ run = 0
  /\ round = 0
  /\ delivered = NoResult
  /\ obs = NoObs

\* ---- StartEvent ----
\* a StartEvent carries input and may carry streaming (getattr default False)
StartEvents ==
  [input : UserInputs] \cup [input : UserInputs, streaming : BOOLEAN]
Streaming(ev) == IF "streaming" \in DOMAIN ev THEN ev.streaming ELSE FALSE
\* the key under which prepare_chat_history stores the flag
FlagKeyWritten == "steaming"
\* the key handle_llm_input reads
FlagKeyRead == "streaming"
\* the Context a run is handed: fresh, or one in which the caller has stored the
\* flag of the run under "streaming"
PriorContexts(ev) == {{}, {<<"streaming", Streaming(ev)>>}}

\* line 89
SourcesAtStartKept(old) == old
SourcesAtStart(old) == <<>>

\* lines 87-109
prepare_chat_history(ev, ctx0) ==
  LET mem1 == IF system_prompt # "None"
              THEN put(memory, ChatMessage("system", <<system_prompt>>, NoKwargs))
              ELSE memory
      mem2 == put(mem1, ChatMessage("user", <<ev.input>>, NoKwargs))
  IN /\ pc \in {"idle", "Done", "Failed"}
     /\ run < MaxRuns
     /\ sources' = SourcesAtStart(sources)
     /\ memory' = mem2
     /\ ctx_data' = Store(ctx0, FlagKeyWritten, Streaming(ev))
     /\ events' = write_event_to_stream(events, AgentRunEvent(AgentName, StartMsg(ev.input)))
     /\ ev_input' = get(mem2)
     /\ pc' = "InputEvent"
     /\ error' = "none"
     /\ ev_tool_calls' = <<>>
     /\ result' = NoResult
     /\ gen' = NoGen
     /\ received' = <<>>
     /\ run' = run + 1
     /\ round' = 0
     /\ obs' = [NoObs EXCEPT !.log_start = Len(memory), !.events_start = Len(events),
                             !.input = ev.input,
                             !.sources_before = Len(sources)]
     \* line 89 binds a new list to self.sources: the list of a result handed out
     \* before is not touched
     /\ UNCHANGED <<system_prompt, write_events, delivered>>

StartRun == \E ev \in StartEvents : \E ctx0 \in PriorContexts(ev) : prepare_chat_history(ev, ctx0)


\* ---- the language model (environment) ----
\* ToolSelection.  tool_id is unique within a run: <<round, position>>; tool_kwargs
\* is the argument text assembled so far, <<"q">> when complete
ToolSelection(r, i, name, kwargs) ==
  [tool_id |-> <<r, i>>, tool_name |-> name, tool_kwargs |-> kwargs]
NameSeqs == UNION {[1..n -> RequestNames] : n \in 1..MaxBatch}
Batch(r, names, kwargs) ==
  [i \in 1..Len(names) |-> ToolSelection(r, i, names[i], kwargs)]
\* the model asks for tools in at most MaxRounds rounds of a run
MayCall == round < MaxRounds
\* ChatResponse: the message, and the requests the model put in it.  The message
\* has "tool_calls" in its additional_kwargs exactly when there are requests; the
\* log keeps their number, the response their content.
ChatResponse(content, b) ==
  [message |-> ChatMessage("assistant", content,
                           IF b = <<>> THEN NoKwargs ELSE [tool_calls |-> Len(b)]),
   raw |-> b]
\* a complete reply: plain, or carrying requests
PlainResponse == ChatResponse(<<"reply">>, <<>>)
CallResponse(b) == ChatResponse(<<"reply">>, b)
Responses ==
  {PlainResponse} \cup
  (IF MayCall THEN {CallResponse(Batch(round + 1, names, <<"q">>)) : names \in NameSeqs}
   ELSE {})

\* self.llm.get_tool_calls_from_response: the requests carried by the response
\* (empty when it carries none)
get_tool_calls_from_response(response) ==
  IF "tool_calls" \in DOMAIN response.message.additional_kwargs
  THEN response.raw
  ELSE <<>>

\* an exception leaves the step: the run ends with it
Raise(kind) ==
  /\ pc' = "Failed"
  /\ error' = kind

FirstReply(kind) == IF obs.first_reply = "none" THEN kind ELSE obs.first_reply
Invoked(kind) ==
  [obs EXCEPT !.first_reply = FirstReply(kind), !.llm_calls = @ + 1,
              !.inv_log = Len(memory)]

\* line 145: [*self.sources], a new list with the outcomes accumulated so far
ResultSourcesFresh(srcs) == <<>>
ResultSources(srcs) == srcs
AgentRunResult(response, srcs) ==
  [kind |-> "AgentRunResult", response |-> response, sources |-> ResultSources(srcs)]
\* lines 142-147: the caller of the run receives the result of the StopEvent
Delivered(res) == [kind |-> res.kind, run |-> run, sources |-> res.sources]

\* lines 123-149, the model having answered with response
handle_llm_input_buffered(response) ==
  LET tool_calls == get_tool_calls_from_response(response)
  IN /\ memory' = put(memory, response.message)
     /\ IF tool_calls = <<>>
        THEN /\ events' = write_event_to_stream(events, AgentRunEvent(AgentName, FinishedMsg))
             /\ result' = AgentRunResult(response, sources)
             /\ delivered' = Delivered(AgentRunResult(response, sources))
             /\ pc' = "Done"
             /\ obs' = Invoked("plain")
             /\ UNCHANGED <<ev_tool_calls, round>>
        ELSE /\ ev_tool_calls' = tool_calls
             /\ pc' = "ToolCallEvent"
             /\ round' = round + 1
             /\ obs' = Invoked("calls")
             /\ UNCHANGED <<events, result, delivered>>
     /\ UNCHANGED <<error, sources, ev_input, gen, received>>

\* lines 125-128 and 162-165 when the model service fails: the exception leaves
\* the step
model_error ==
  /\ Raise("ModelError")
  /\ obs' = Invoked("error")
  /\ UNCHANGED <<memory, sources, events, ev_input, ev_tool_calls, result, gen,
                 received, round, delivered>>

\* ---- streaming: the chunks of one reply ----
\* The j-th of n chunks carries the message assembled so far; a chunk with the marker
\* has "tool_calls" in its additional_kwargs, and the arguments of the requests are
\* complete in the last chunk only.
Chunk(j, n, names) ==
  ChatResponse(SubSeq(Fragments, 1, j),
               Batch(round + 1, names, IF j = n THEN <<"q">> ELSE <<>>))
HasMarker(chunk) == "tool_calls" \in DOMAIN chunk.message.additional_kwargs
\* a reply without requests: no chunk has the marker
PlainStreams ==
  {[j \in 1..n |-> Chunk(j, n, <<>>)] : n \in 1..MaxChunks}
\* a reply with requests: every chunk has the marker
MarkedStreams ==
  UNION {{[j \in 1..n |-> Chunk(j, n, names)] : names \in NameSeqs} :
           n \in 1..MaxChunks}
Streams == PlainStreams \cup (IF MayCall THEN MarkedStreams ELSE {})

\* ---- response_generator, lines 161-191 ----
Indicator(b) == [kind |-> "indicator", value |-> b]
ChunkItem(chunk) == [kind |-> "chunk", chunk |-> chunk]
\* the generator object before its first __anext__: lines 167-168
response_generator(stream) ==
  [pos |-> "created", stream |-> stream, i |-> 0, yeilded_indicator |-> FALSE,
   full_response |-> 0, yielded |-> <<>>]
\* the generator suspends at the yield of line pos, having produced item
Yield(g, j, line, item, mem) ==
  [gen |-> [g EXCEPT !.pos = line, !.i = j, !.yielded = Append(@, item)],
   memory |-> mem, ended |-> FALSE, item |-> item]
\* lines 186-191: inside the loop, for every chunk
Persist(g, j, mem) ==
  Yield([g EXCEPT !.full_response = j], j, "L191", ChunkItem(g.stream[j]),
        put(mem, g.stream[j].message))
\* lines 170-183: the loop takes chunk j and runs to the next yield; after the last
\* chunk the generator is exhausted
LoopTop(g, j, mem) ==
  IF j > Len(g.stream)
  THEN [gen |-> [g EXCEPT !.pos = "ended"], memory |-> mem, ended |-> TRUE,
        item |-> Indicator(FALSE)]
  ELSE IF ~HasMarker(g.stream[j])
       THEN IF ~g.yeilded_indicator
            THEN Yield(g, j, "L173", Indicator(FALSE), mem)
            ELSE Yield(g, j, "L178", ChunkItem(g.stream[j]), mem)
       ELSE IF ~g.yeilded_indicator
            THEN Yield(g, j, "L182", Indicator(TRUE), mem)
            ELSE Persist(g, j, mem)
\* generator.__anext__(): resume after the yield the generator is suspended at
anext(g, mem) ==
  CASE g.pos = "created" -> LoopTop(g, 1, mem)
    [] g.pos = "L173" ->
         Yield([g EXCEPT !.yeilded_indicator = TRUE], g.i, "L178",
               ChunkItem(g.stream[g.i]), mem)
    [] g.pos = "L178" -> Persist(g, g.i, mem)
    [] g.pos = "L182" -> Persist([g EXCEPT !.yeilded_indicator = TRUE], g.i, mem)
    [] g.pos = "L191" -> LoopTop(g, g.i + 1, mem)

\* lines 153-211 (the consuming statements are lines 194-211), the model streaming
\* the chunks of stream
handle_llm_input_stream(stream) ==
  LET generator == response_generator(stream)
      first == anext(generator, memory)
      is_tool_call == first.item.value
      second == anext(first.gen, first.memory)
      full_response == second.item.chunk
      tool_calls == get_tool_calls_from_response(full_response)
  IN /\ IF is_tool_call
        THEN /\ memory' = second.memory
             /\ gen' = second.gen
             /\ ev_tool_calls' = tool_calls
             /\ pc' = "ToolCallEvent"
             /\ round' = round + 1
             /\ obs' = [Invoked("calls") EXCEPT !.extracted = <<second.item>>]
             /\ UNCHANGED <<events, result>>
        ELSE /\ memory' = first.memory
             /\ gen' = first.gen
             /\ events' = write_event_to_stream(events,
                                                AgentRunEvent(AgentName, FinishedMsgStream))
             /\ result' = [kind |-> "generator"]
             /\ pc' = "Done"
             /\ obs' = Invoked("plain")
             /\ UNCHANGED <<ev_tool_calls, round>>
     /\ UNCHANGED <<error, sources, ev_input, received, delivered>>

\* lines 113-149
handle_llm_input ==
  /\ pc = "InputEvent"
  /\ IF ~HasKey(ctx_data, FlagKeyRead)
     THEN \* line 119: ctx.data["streaming"] raises KeyError
          /\ Raise("KeyError")
          /\ UNCHANGED <<memory, sources, events, ev_input, ev_tool_calls, result, gen,
                         received, round, delivered, obs>>
     ELSE IF Lookup(ctx_data, FlagKeyRead)
          THEN \/ \E stream \in Streams : handle_llm_input_stream(stream)
               \/ model_error
          ELSE \/ \E response \in Responses : handle_llm_input_buffered(response)
               \/ model_error
  /\ UNCHANGED <<system_prompt, write_events, ctx_data, run>>

\* the caller of a streaming run iterates the generator it was handed
\* line 170: resumed after the yield of line 191 the generator asks the stream for
\* the next chunk
AtFetch(g) == g.pos = "L191"
consume ==
  /\ pc = "Done"
  /\ result.kind = "generator"
  /\ gen.pos # "ended"
  /\ \/ LET next == anext(gen, memory)
        IN /\ gen' = next.gen
           /\ memory' = next.memory
           /\ received' = IF next.ended THEN received ELSE Append(received, next.item)
           /\ UNCHANGED <<pc, error>>
     \/ \* the model service fails in the middle of the stream: the exception leaves
        \* the generator and reaches the caller
        /\ AtFetch(gen)
        /\ Raise("ModelError")
        /\ gen' = [gen EXCEPT !.pos = "ended"]
        /\ UNCHANGED <<memory, received>>
  /\ UNCHANGED <<system_prompt, write_events, sources, ctx_data, events,
                 ev_input, ev_tool_calls, result, run, round, delivered, obs>>

\* ---- tool dispatch ----
HasTool(name) == \E t \in tools : t.name = name
\* tools_by_name.get(name) for a configured name
tools_by_name(name) == CHOOSE t \in tools : t.name = name
ToolOutput(tool_call, outcome) ==
  [tool_name |-> tool_call.tool_name, content |-> <<"output of", tool_call.tool_name>>,
   is_error |-> (outcome = "failure"), invocation |-> <<run, tool_call.tool_id>>]

\* lines 246-250: isinstance(tool, ContextAwareTool) decides whether acall is given
\* the workflow Context
acall_with_ctx_always(tool) == TRUE
acall_with_ctx(tool) == tool.ctx_aware

\* lines 215-277.  The statements of lines 270-277 are inside the for loop, so the
\* step returns at the end of the first iteration; line 232 dereferences tool before
\* the test of line 235, so the branch of lines 235-243 is never taken.
handle_tool_calls(outcome) ==
  LET tool_calls == ev_tool_calls
      tool_call == tool_calls[1]
      before == [batch |-> tool_calls, log |-> Len(memory), sources |-> Len(sources),
                 calls |-> Len(obs.calls)]
  IN /\ pc = "ToolCallEvent"
     /\ IF ~HasTool(tool_call.tool_name)
        THEN \* line 232: tool is None, tool.metadata raises AttributeError
             /\ Raise("AttributeError")
             /\ obs' = [obs EXCEPT !.rounds = Append(@, before)]
             /\ UNCHANGED <<memory, sources, ev_input>>
        ELSE LET tool == tools_by_name(tool_call.tool_name)
                 additional_kwargs == [tool_call_id |-> tool_call.tool_id,
                                       name |-> tool.name]
                 \* lines 246-250: acall with ctx for a ContextAwareTool
                 call == [tool_id |-> tool_call.tool_id, tool_name |-> tool.name,
                          with_ctx |-> acall_with_ctx(tool), outcome |-> outcome]
                 \* line 252 is reached when acall returned
                 srcs == IF outcome = "raise" THEN sources
                         ELSE Append(sources, ToolOutput(tool_call, outcome))
                 \* lines 254-260 evaluate e, which is unbound: the NameError is
                 \* caught at line 261 like an exception of acall, and lines 262-267
                 \* append a message with empty content and no additional_kwargs
                 tool_msgs == <<ChatMessage("tool", <<>>, NoKwargs)>>
                 \* lines 270-271
                 mem == put(memory, tool_msgs[1])
             IN /\ sources' = srcs
                /\ memory' = mem
                \* lines 275-277
                /\ ev_input' = get(mem)
                /\ pc' = "InputEvent"
                /\ obs' = [obs EXCEPT !.rounds = Append(@, before),
                                      !.calls = Append(@, call)]
                /\ UNCHANGED error
     \* line 252 appends to the list bound to self.sources
     /\ UNCHANGED <<system_prompt, write_events, ctx_data, events, ev_tool_calls, result,
                    gen, received, run, round, delivered>>

ToolDispatch == \E outcome \in Outcomes : handle_tool_calls(outcome)

Next == StartRun \/ handle_llm_input \/ ToolDispatch \/ consume

Spec == Init /\ [][Next]_vars

\* ---- the workflow as the class declares it ----
\* The steps of a Workflow are the methods of the class that carry @step:
\* prepare_chat_history (line 87) and handle_llm_input (line 113).  The @step of
\* line 215 decorates a function local to handle_llm_input_stream, which is no
\* attribute of the class: a run of the workflow has no step that accepts a
\* ToolCallEvent.  (Spec above applies every step function to the event of its type.)
WorkflowNext == StartRun \/ handle_llm_input \/ consume

SpecWorkflow == Init /\ [][WorkflowNext]_vars

\* ---- what the properties speak of ----
\* lines 236-242: the message for a request that names no configured tool
DoesNotExist(tool_name) == <<"Tool", tool_name, "does not exist">>
\* line 257: the message for a failed execution
EncounteredError == <<"Encountered error in tool call:", "e">>

Ended == pc \in {"Done", "Failed"}
\* the notices and the messages of the current run
RunNotices == SubSeq(events, obs.events_start + 1, Len(events))
RunLog == SubSeq(memory, obs.log_start + 1, Len(memory))
Roles(msgs) == [k \in 1..Len(msgs) |-> msgs[k].role]
\* the positions of the tool messages that follow position from without a gap
RECURSIVE ToolRun(_, _)
ToolRun(msgs, from) ==
  IF from < Len(msgs) /\ msgs[from + 1].role = "tool"
  THEN {from + 1} \cup ToolRun(msgs, from + 1)
  ELSE {}
\* the positions of the tool messages the r-th dispatch of the run put in the log
AppendedBy(r) == ToolRun(memory, obs.rounds[r].log)
Handled == 1..Len(obs.rounds)
Unknown(tool_call) == ~HasTool(tool_call.tool_name)
Executed(tool_call) == \E k \in 1..Len(obs.calls) : obs.calls[k].tool_id = tool_call.tool_id
OutcomeOf(tool_call) ==
  obs.calls[CHOOSE k \in 1..Len(obs.calls) : obs.calls[k].tool_id = tool_call.tool_id].outcome
Answers(msg, tool_call) ==
  /\ msg.role = "tool"
  /\ "tool_call_id" \in DOMAIN msg.additional_kwargs
  /\ msg.additional_kwargs.tool_call_id = tool_call.tool_id
InSources(srcs, tool_call) ==
  \E k \in 1..Len(srcs) : srcs[k].invocation = <<run, tool_call.tool_id>>
Successes == {k \in 1..Len(obs.calls) : obs.calls[k].outcome = "ok"}

\* C1: a run with notices enabled in which the model asks for no tool ends Done,
\* never Failed, with no sources and with exactly the two notices
\* "Start to work on: {input}" and "Finished task", in that order.
C1_NoToolRunFinishes ==
  (write_events /\ Ended /\ obs.first_reply \in {"none", "plain"}) =>
    /\ pc = "Done"
    /\ sources = <<>>
    /\ (result.kind = "AgentRunResult" => result.sources = <<>>)
    /\ RunNotices = <<AgentRunEvent(AgentName, StartMsg(obs.input)),
                      AgentRunEvent(AgentName, FinishedMsg)>>

\* the roles C2 expects after the user message: per round an assistant message and
\* one tool message per request, then the final assistant message
RECURSIVE RoundRoles(_)
RoundRoles(r) ==
  IF r > Len(obs.rounds) THEN <<"assistant">>
  ELSE <<"assistant">> \o [k \in 1..Len(obs.rounds[r].batch) |-> "tool"] \o RoundRoles(r + 1)
ExpectedRoles ==
  (IF system_prompt # "None" THEN <<"system">> ELSE <<>>) \o <<"user">> \o RoundRoles(1)

\* C2: at Done of a buffered run the messages the run appended are, in order, the
\* optional system message, the user message, per round of tool calls one assistant
\* message and one tool message per request, then the final assistant message; and
\* the result has as many sources as tool invocations executed without failure.
C2_LogShapeAtDone ==
  (pc = "Done" /\ result.kind = "AgentRunResult") =>
    /\ Roles(RunLog) = ExpectedRoles
    /\ Len(result.sources) = Cardinality(Successes)

\* C3: a request that names no configured tool is never executed, gets exactly one
\* tool message saying that the tool does not exist, adds nothing to sources, and
\* the dispatch step does not fail.
C3_UnknownToolAnswered ==
  \A r \in Handled : \A i \in 1..Len(obs.rounds[r].batch) :
    LET tool_call == obs.rounds[r].batch[i]
    IN Unknown(tool_call) =>
         /\ ~Executed(tool_call)
         /\ Cardinality({k \in AppendedBy(r) :
               memory[k].content = DoesNotExist(tool_call.tool_name)}) = 1
         /\ ~InSources(sources, tool_call)
         /\ error # "AttributeError"

\* C4: an executed request whose capability raises or returns a failure gets exactly
\* one tool message whose content describes the error and adds nothing to sources;
\* sources never holds the outcome of a failed invocation.
C4_FailureReported ==
  /\ \A r \in Handled : \A i \in 1..Len(obs.rounds[r].batch) :
       LET tool_call == obs.rounds[r].batch[i]
       IN (Executed(tool_call) /\ OutcomeOf(tool_call) \in {"raise", "failure"}) =>
            /\ Cardinality({k \in AppendedBy(r) :
                  memory[k].content = EncounteredError}) = 1
            /\ ~InSources(sources, tool_call)
  /\ \A k \in 1..Len(sources) : ~sources[k].is_error

\* C5: one dispatch of a batch of k requests appends exactly k tool messages, the
\* i-th of them answering the i-th request, and sources gains exactly the outcomes
\* of the requests that succeeded.
C5_OneMessagePerRequest ==
  \A r \in Handled :
    LET batch == obs.rounds[r].batch
        first == obs.rounds[r].log
    IN /\ Cardinality(AppendedBy(r)) = Len(batch)
       /\ \A i \in 1..Len(batch) :
            /\ first + i \in AppendedBy(r)
            /\ Answers(memory[first + i], batch[i])
            /\ InSources(sources, batch[i]) <=>
                 (Executed(batch[i]) /\ OutcomeOf(batch[i]) = "ok")

\* C6: when the dispatch step hands an InputEvent back to the model step, the
\* snapshot in it holds one tool message for each request of the batch.
C6_NoPartialReentry ==
  (pc = "InputEvent" /\ Len(obs.rounds) > 0) =>
    LET last == obs.rounds[Len(obs.rounds)]
    IN Cardinality(ToolRun(ev_input, last.log)) = Len(last.batch)

\* C7: prepare_chat_history leaves sources empty whatever it held, so sources is
\* empty until a tool executes in the run, and a result holds only outcomes of
\* tools executed in the run that produced it.
C7_SourcesResetAtStart ==
  /\ (run > 0 /\ obs.calls = <<>>) => sources = <<>>
  /\ result.kind = "AgentRunResult" =>
       \A k \in 1..Len(result.sources) : result.sources[k].invocation[1] = run

\* C7 witness: after a run that left sources non-empty, a second run has executed a
\* tool and produced its result.
C7_SecondRunResult ==
  /\ run = 2
  /\ obs.sources_before > 0
  /\ result.kind = "AgentRunResult"
  /\ result.sources # <<>>

StreamOf(g) == g.stream
\* C8: when the first chunk of a streamed reply has the tool-call marker, the first
\* item the generator yields is the tool-call indicator and the requests are
\* extracted from the last chunk of the stream, the assembled response.
C8_ExtractsFromAssembled ==
  obs.extracted # <<>> =>
    /\ gen.yielded[1] = Indicator(TRUE)
    /\ obs.extracted[1] = ChunkItem(StreamOf(gen)[Len(StreamOf(gen))])

\* C9: for a streamed reply without the marker, the generator yields the plain-text
\* indicator, then every chunk once, in arrival order; the last item is the last
\* chunk, the complete message.
C9_EachFragmentOnce ==
  (gen.pos = "ended" /\ \A j \in 1..Len(gen.stream) : ~HasMarker(gen.stream[j])) =>
    gen.yielded = <<Indicator(FALSE)>> \o
                  [j \in 1..Len(gen.stream) |-> ChunkItem(gen.stream[j])]

\* C10: when the stream of one model invocation is exhausted, the log has grown by
\* exactly one assistant message for that invocation.
C10_PersistedOnce ==
  gen.pos = "ended" => Len(memory) = obs.inv_log + 1

\* ---- C11 ----
SystemMessages ==
  {k \in 1..Len(memory) :
     memory[k] = ChatMessage("system", <<system_prompt>>, NoKwargs)}
\* C11: whatever runs were started on the instance, the log holds the configured
\* system prompt message at most once.
C11_SystemPromptOnce == Cardinality(SystemMessages) <= 1

\* ---- C12 ----
\* C12: a run in which tool dispatch was applied ends abnormally only with a failure
\* of the model service (ModelError, TimeoutError); no problem of a tool -- unknown
\* name, failed or raising execution -- escapes the dispatch step.
C12_ToolProblemsAbsorbed ==
  (Len(obs.rounds) > 0 /\ pc = "Failed") => error \in {"ModelError", "TimeoutError"}

\* ---- C13 ----
\* the flag the start step captured for the current run
CapturedFlag == Lookup(ctx_data, FlagKeyWritten)
\* C13: reading the captured flag never fails, and the mode of the invocations of a
\* run is the flag captured at its start: a generator (streaming mode) exists only
\* when the flag is true, an AgentRunResult (buffered mode) only when it is false.
C13_ModeIsCapturedFlag ==
  /\ error # "KeyError"
  /\ (run > 0 /\ (gen # NoGen \/ result.kind = "generator")) => CapturedFlag
  /\ (run > 0 /\ result.kind = "AgentRunResult") => ~CapturedFlag

\* ---- C14 ----
ToolMessages == {k \in 1..Len(memory) : memory[k].role = "tool"}
\* C14: every tool-role message of the log carries, in its metadata, the id of the
\* request it answers and the name of the tool.
C14_ToolMessagesIdentified ==
  \A k \in ToolMessages :
    {"tool_call_id", "name"} \subseteq DOMAIN memory[k].additional_kwargs

C16_ContextIffAware ==
  \A k \in 1..Len(obs.calls) :
    obs.calls[k].with_ctx <=> tools_by_name(obs.calls[k].tool_name).ctx_aware
\* the context-free tool has been executed, without the Context
C16_ContextFreeCalled ==
  \E k \in 1..Len(obs.calls) :
    obs.calls[k].tool_name = "search" /\ ~obs.calls[k].with_ctx

\* ---- C17 ----
\* C17: a failure of the model service during an invocation ends the run with that
\* failure: no AgentRunResult is produced and no assistant message of the failed
\* invocation is in the log (the log is as long as when the invocation began).
C17_ModelFailureFatal ==
  error = "ModelError" =>
    /\ pc = "Failed"
    /\ result.kind # "AgentRunResult"
    /\ Len(memory) = obs.inv_log

\* ---- C18 ----
\* C18: a ToolCallEvent emitted by the model step never stays unhandled: whenever
\* one is pending, a step of the workflow accepts it (so that the run goes on to the
\* next model invocation and, after finitely many rounds, to Done).
C18_ToolCallEventAccepted == pc = "ToolCallEvent" => ENABLED WorkflowNext

\* ---- C19 ----
\* the tool messages of round r whose content is the outcome of tool_call
Reporting(r, call) ==
  {m \in AppendedBy(r) : memory[m].content = <<"output of", call.tool_name>>}
\* C19: a tool message with the error description is appended only in a round in
\* which an execution failed; and for every request whose capability completed
\* without failure exactly one tool message of its round reports the outcome, and the
\* outcome is in sources exactly once.
C19_SuccessReportedOnce ==
  /\ \A r \in Handled : \A m \in AppendedBy(r) :
       memory[m].content = EncounteredError =>
         \E k \in 1..Len(obs.calls) :
           obs.calls[k].tool_id[1] = r /\ obs.calls[k].outcome # "ok"
  /\ \A k \in Successes :
       /\ Cardinality(Reporting(obs.calls[k].tool_id[1], obs.calls[k])) = 1
       /\ Cardinality({j \in 1..Len(sources) :
                         sources[j].invocation = <<run, obs.calls[k].tool_id>>}) = 1

\* ---- C20 ----
\* a step that ends a buffered run with a result
ProducesResult == result' # result /\ result'.kind = "AgentRunResult"
C20_Step ==
  /\ ProducesResult => delivered'.sources = sources
  /\ (delivered.kind = "AgentRunResult" /\ ~ProducesResult) => delivered' = delivered
====
